---------------------------- MODULE Spec2Model ----------------------------
(***************************************************************************)
(* Model of dns-tests.py: the WeaveDNS end-to-end harness.                 *)
(*                                                                         *)
(* The harness is a single-threaded Python 2 script.  The model follows    *)
(* its control flow with one program counter `pc`:                         *)
(*   __main__ runs two scenario invocations (A-query, PTR-query), each a   *)
(*   `with weaveDnsNetwork(2, ...)` block.  weaveDnsNetwork is a           *)
(*   @contextmanager generator: try { startTopology; for h: runWeaveDNS;   *)
(*   yield } except ... finally { killProc each; stopTopology; sys.exit }. *)
(*                                                                         *)
(* The outside world (mininet, the HTTP API, the DNS server, the keyboard) *)
(* is a nondeterministic choice of the outcome of each call.               *)
(* KeyboardInterrupt is delivered at the blocking operations of the        *)
(* set-up and scenario phases (sleeps, HTTP requests, DNS queries, waits). *)
(***************************************************************************)
EXTENDS Integers, Sequences, FiniteSets, TLC

(* ------------------------- program constants --------------------------- *)

\* CACHE_NEG_TTL = 30
CACHE_NEG_TTL == 30

\* tries = 10 in runWeaveDNS
Tries == 10

\* weaveDnsNetwork(2, weavedns, debug=debug): hosts of the topology
NumHosts == 2

\* sys.exit(2) in startTopology
TopologyExitCode == 2

\* IP = '10.0.0.9' and NAME = 'something.weave.local.'
IP == "10.0.0.9"
NAME == "something.weave.local."

(* ------------------------------ bounds --------------------------------- *)

\* resource records in an answer section, and rdata items in one record
MaxRR == 2
MaxItems == 2

\* another address / name a server may answer with
OtherIP == "10.0.0.7"
OtherName == "other.weave.local."

Hosts == 1..NumHosts

SeqUpTo(S, n) == UNION {[1..k -> S] : k \in 0..n}

VARIABLES
    scenario,    \* 1: the A-query with-block, 2: the PTR-query with-block
    pc,          \* position of the script
    exc,         \* exception in flight ("none" when there is none)
    caught,      \* except clause that handled an exception in this invocation
    net,         \* weaveDnsNetwork.net is not None
    hw,          \* weaveDnsNetwork.hw: the hosts whose (h, w) pair was appended
    rc,          \* weaveDnsNetwork.rc
    h,           \* index of the for loop over net.hosts
    fi,          \* index of the for loop over hw in the finally block
    tries,       \* runWeaveDNS.tries
    connected,   \* runWeaveDNS.connected
    caller,      \* who called killProc: "runWeaveDNS" or "finally"
    debug,       \* the --debug flag
    topo,        \* the emulated network: "none", "created", "started", "stopped"
    procState,   \* per host, the service process spawned on it
    step,        \* index of the statement of the with-body
    addresses,   \* addresses / names: the set the last resolve call returned
    response,    \* the local `response` of the resolve call that just returned
    exitCode,    \* exit status of the script, -1 while it runs
    \* ---- observation variables (written, never read by the program) ----
    attempts,    \* status requests issued by the current runWeaveDNS call
    status,      \* outcome of the last status request of that call
    ready,       \* per host, a status request to its process succeeded
    sigCount,    \* per host, the SIGINTs delivered to its process
    drained,     \* per host, dumpProcOut ran on its process
    killOrder,   \* hosts on which the finally block called killProc, in order
    stopCount,   \* net.stop() calls of this invocation
    stopSeen,    \* killOrder as it was when net.stop() ran
    finallyDone, \* the finally block logged "Done... bye"
    steps,       \* steps of the with-body started so far
    held,        \* for each assertion evaluated, whether its condition held
    elapsed,     \* seconds slept since the last publish/delete returned
    queryAt,     \* for each query issued, `elapsed` at that moment
    putCount,    \* HTTP PUT requests of this invocation
    deleteCount, \* HTTP DELETE requests of this invocation
    lastHttp,    \* outcome of the last PUT/DELETE request
    failed       \* some scenario or set-up step failed in this process

prog == <<scenario, pc, exc, caught, net, hw, rc, h, fi, tries, connected,
          caller, debug, topo, procState, step, addresses, response, exitCode>>
obs == <<attempts, status, ready, sigCount, drained, killOrder, stopCount, stopSeen,
         finallyDone, steps, held, elapsed, queryAt, putCount, deleteCount,
         lastHttp, failed>>
vars == <<prog, obs>>

\* groups of variables the phases of the script leave alone
mainV == <<scenario, debug, exitCode>>
launchV == <<h, tries, connected, attempts, status>>
procV == <<procState, sigCount, drained, ready>>
bodyV == <<step, addresses, response, steps, held, elapsed, queryAt, putCount,
           deleteCount, lastHttp>>
tearV == <<fi, caller, killOrder, stopCount, stopSeen, finallyDone>>

NoResponse == [kind |-> "none", answer |-> <<>>]

(* ------------------------- state at the start -------------------------- *)

\* net = None; hw = []; rc = 0 and everything else local to one invocation
EnterInvocation ==
    /\ pc' = "startTopology"
    /\ exc' = "none"
    /\ caught' = "none"
    /\ net' = FALSE
    /\ hw' = <<>>
    /\ rc' = 0
    /\ h' = 1
    /\ fi' = 1
    /\ tries' = 0
    /\ connected' = FALSE
    /\ caller' = "none"
    /\ topo' = "none"
    /\ procState' = [p \in Hosts |-> "none"]
    /\ step' = 1
    /\ addresses' = {}
    /\ response' = NoResponse
    /\ attempts' = 0
    /\ status' = "none"
    /\ ready' = [p \in Hosts |-> FALSE]
    /\ sigCount' = [p \in Hosts |-> 0]
    /\ drained' = [p \in Hosts |-> FALSE]
    /\ killOrder' = <<>>
    /\ stopCount' = 0
    /\ stopSeen' = <<>>
    /\ finallyDone' = FALSE
    /\ steps' = <<>>
    /\ held' = <<>>
    /\ elapsed' = 0
    /\ queryAt' = <<>>
    /\ putCount' = 0
    /\ deleteCount' = 0
    /\ lastHttp' = "none"

Init ==
    /\ scenario = 1
    /\ debug \in BOOLEAN
    /\ exitCode = -1
    /\ failed = FALSE
    /\ pc = "startTopology"
    /\ exc = "none"
    /\ caught = "none"
    /\ net = FALSE
    /\ hw = <<>>
    /\ rc = 0
    /\ h = 1
    /\ fi = 1
    /\ tries = 0
    /\ connected = FALSE
    /\ caller = "none"
    /\ topo = "none"
    /\ procState = [p \in Hosts |-> "none"]
    /\ step = 1
    /\ addresses = {}
    /\ response = NoResponse
    /\ attempts = 0
    /\ status = "none"
    /\ ready = [p \in Hosts |-> FALSE]
    /\ sigCount = [p \in Hosts |-> 0]
    /\ drained = [p \in Hosts |-> FALSE]
    /\ killOrder = <<>>
    /\ stopCount = 0
    /\ stopSeen = <<>>
    /\ finallyDone = FALSE
    /\ steps = <<>>
    /\ held = <<>>
    /\ elapsed = 0
    /\ queryAt = <<>>
    /\ putCount = 0
    /\ deleteCount = 0
    /\ lastHttp = "none"

(* --------------------------- raising ----------------------------------- *)

\* An exception leaves the try block of weaveDnsNetwork.  SystemExit is no
\* Exception and no except clause names it: only the finally block runs.
Raise(e) ==
    /\ exc' = e
    /\ pc' = IF e = "SystemExit" THEN "finally" ELSE "except"
    /\ failed' = TRUE

(* --------------------------- startTopology ----------------------------- *)

\* topo = SingleSwitchTopo(num); net = Mininet(...), sys.exit(2) on failure
CreateTopology ==
    /\ pc = "startTopology"
    /\ \E outcome \in {"ok", "Exception"} :
         IF outcome = "ok"
         THEN /\ topo' = "created"
              /\ pc' = "rootNode"
              /\ UNCHANGED <<exc, failed>>
         ELSE /\ Raise("SystemExit")
              /\ UNCHANGED topo
    /\ UNCHANGED <<mainV, launchV, procV, bodyV, tearV, caught, net, hw, rc>>

\* root = Node(...); Link(root, switch); root.setIP(...); time.sleep(1)
LinkRootNode ==
    /\ pc = "rootNode"
    /\ \E outcome \in {"ok", "Exception", "KeyboardInterrupt"} :
         IF outcome = "ok"
         THEN /\ pc' = "netStart"
              /\ UNCHANGED <<exc, failed>>
         ELSE Raise(outcome)
    /\ UNCHANGED <<mainV, launchV, procV, bodyV, tearV, caught, net, hw, rc,
                   topo>>

\* net.start(); the routes; return net.  `net = startTopology(num)` assigns
\* weaveDnsNetwork.net only when startTopology returns.
StartNetwork ==
    /\ pc = "netStart"
    /\ \E outcome \in {"ok", "Exception"} :
         IF outcome = "ok"
         THEN /\ topo' = "started"
              /\ net' = TRUE
              /\ pc' = "forHosts"
              /\ UNCHANGED <<exc, failed>>
         ELSE /\ Raise(outcome)
              /\ UNCHANGED <<topo, net>>
    /\ UNCHANGED <<mainV, launchV, procV, bodyV, tearV, caught, hw, rc>>

\* if net: net.stop()
stopTopology ==
    IF net
    THEN /\ topo' = "stopped"
         /\ stopCount' = stopCount + 1
         /\ stopSeen' = killOrder
    ELSE UNCHANGED <<topo, stopCount, stopSeen>>

(* ----------------------------- killProc -------------------------------- *)

\* where killProc returns to
AfterKillProc == IF caller = "runWeaveDNS" THEN "dumpProcOut" ELSE "finallyDump"

\* the process killProc was called on: p of runWeaveDNS, or w of hw[fi]
Victim == IF caller = "runWeaveDNS" THEN h ELSE hw[fi]

\* p.send_signal(signal.SIGINT); an OSError (the process is no more) ends
\* killProc at once: `except OSError: pass`
SendSignal ==
    /\ pc = "killProc"
    /\ \E outcome \in {"ok", "OSError"} :
         IF outcome = "ok"
         THEN /\ procState' = [procState EXCEPT ![Victim] = "signaled"]
              /\ sigCount' = [sigCount EXCEPT ![Victim] = @ + 1]
              /\ pc' = "killProcSleep"
         ELSE /\ procState' = [procState EXCEPT ![Victim] = "gone"]
              /\ pc' = AfterKillProc
              /\ UNCHANGED sigCount
    /\ UNCHANGED <<mainV, launchV, bodyV, tearV, exc, failed, caught, net, hw,
                   rc, topo, drained, ready>>

\* time.sleep(1): the grace period
GracePeriod ==
    /\ pc = "killProcSleep"
    /\ procState' = [procState EXCEPT ![Victim] = "graced"]
    /\ pc' = "killProcKill"
    /\ UNCHANGED <<mainV, launchV, bodyV, tearV, exc, failed, caught, net, hw,
                   rc, topo, sigCount, drained, ready>>

\* p.kill(), with the same `except OSError: pass`
ForceKill ==
    /\ pc = "killProcKill"
    /\ \E outcome \in {"ok", "OSError"} :
         procState' = [procState EXCEPT
                         ![Victim] = IF outcome = "ok" THEN "killed" ELSE "gone"]
    /\ pc' = AfterKillProc
    /\ UNCHANGED <<mainV, launchV, bodyV, tearV, exc, failed, caught, net, hw,
                   rc, topo, sigCount, drained, ready>>

(* ---------------------------- runWeaveDNS ------------------------------ *)

\* for h in net.hosts: ... ; yield net
ForHosts ==
    /\ pc = "forHosts"
    /\ pc' = IF h <= NumHosts THEN "launchSleep" ELSE "body"
    /\ UNCHANGED <<mainV, launchV, procV, bodyV, tearV, exc, failed, caught,
                   net, hw, rc, topo>>

\* time.sleep(1) before each launch
LaunchSleep ==
    /\ pc = "launchSleep"
    /\ \E outcome \in {"ok", "KeyboardInterrupt"} :
         IF outcome = "ok"
         THEN /\ pc' = "popen"
              /\ UNCHANGED <<exc, failed>>
         ELSE Raise(outcome)
    /\ UNCHANGED <<mainV, launchV, procV, bodyV, tearV, caught, net, hw, rc,
                   topo>>

\* p = h.popen(...); connected = False; tries = 10
Popen ==
    /\ pc = "popen"
    /\ \E outcome \in {"ok", "Exception"} :
         IF outcome = "ok"
         THEN /\ procState' = [procState EXCEPT ![h] = "running"]
              /\ connected' = FALSE
              /\ tries' = Tries
              /\ attempts' = 0
              /\ status' = "none"
              /\ pc' = "poll"
              /\ UNCHANGED <<exc, failed>>
         ELSE /\ Raise(outcome)
              /\ UNCHANGED <<procState, connected, tries, attempts, status>>
    /\ UNCHANGED <<mainV, bodyV, tearV, caught, net, hw, rc, topo, h,
                   sigCount, drained, ready>>

\* a variant that treats a request timeout like a refused connection
PollOutcomeRetryTimeout(outcome) ==
    CASE outcome = "ok" -> [tries |-> tries, connected |-> TRUE, sleep |-> FALSE]
      [] outcome = "Timeout" ->
             [tries |-> tries - 1, connected |-> connected, sleep |-> FALSE]
      [] outcome = "ConnectionError" ->
             [tries |-> tries - 1, connected |-> connected, sleep |-> TRUE]

\* what one pass of the loop body does to (tries, connected), given the
\* outcome of requests.get(serverUrl, timeout=10)
PollOutcome(outcome) ==
    CASE outcome = "ok" -> [tries |-> tries, connected |-> TRUE, sleep |-> FALSE]
      [] outcome = "Timeout" -> [tries |-> 0, connected |-> connected, sleep |-> FALSE]
      [] outcome = "ConnectionError" ->
             [tries |-> tries - 1, connected |-> connected, sleep |-> TRUE]

\* while tries > 0 and not connected
PollTest ==
    /\ pc = "poll"
    /\ pc' = IF tries > 0 /\ ~connected THEN "statusGet" ELSE "checkConnected"
    /\ UNCHANGED <<mainV, launchV, procV, bodyV, tearV, exc, failed, caught,
                   net, hw, rc, topo>>

\* r = requests.get(serverUrl, timeout=10) and its except clauses, up to the
\* time.sleep(1) of the ConnectionError clause
StatusGet ==
    /\ pc = "statusGet"
    /\ attempts' = attempts + 1
    /\ \E outcome \in {"ok", "Timeout", "ConnectionError", "KeyboardInterrupt",
                       "Exception"} :
         IF outcome \in {"KeyboardInterrupt", "Exception"}
         THEN /\ Raise(outcome)
              /\ status' = outcome
              /\ UNCHANGED <<tries, connected, ready>>
         ELSE LET r == PollOutcome(outcome) IN
              /\ connected' = r.connected
              /\ status' = outcome
              /\ ready' = [ready EXCEPT ![h] = r.connected]
              /\ IF r.sleep
                 THEN /\ pc' = "pollSleep"
                      /\ UNCHANGED tries
                 ELSE /\ pc' = "poll"
                      /\ tries' = r.tries
              /\ UNCHANGED <<exc, failed>>
    /\ UNCHANGED <<mainV, bodyV, tearV, caught, net, hw, rc, topo, h,
                   procState, sigCount, drained>>

\* time.sleep(1); tries -= 1
PollSleep ==
    /\ pc = "pollSleep"
    /\ \E outcome \in {"ok", "KeyboardInterrupt"} :
         IF outcome = "ok"
         THEN /\ tries' = PollOutcome("ConnectionError").tries
              /\ pc' = "poll"
              /\ UNCHANGED <<exc, failed>>
         ELSE /\ Raise(outcome)
              /\ UNCHANGED tries
    /\ UNCHANGED <<mainV, procV, bodyV, tearV, caught, net, hw, rc, topo, h,
                   connected, attempts, status>>

\* a variant that returns p without looking at `connected`
CheckConnectedLax ==
    /\ pc = "checkConnected"
    /\ hw' = Append(hw, h)
    /\ h' = h + 1
    /\ pc' = "forHosts"
    /\ tries' = 0
    /\ connected' = FALSE
    /\ attempts' = 0
    /\ status' = "none"
    /\ UNCHANGED <<mainV, procV, bodyV, tearV, exc, failed, caught, net, rc,
                   topo>>

\* if not connected: killProc(h, p) ...   else: return p; hw.append((h, w))
CheckConnected ==
    /\ pc = "checkConnected"
    /\ IF ~connected
       THEN /\ caller' = "runWeaveDNS"
            /\ pc' = "killProc"
            /\ UNCHANGED <<hw, h, tries, connected, attempts, status>>
       ELSE /\ hw' = Append(hw, h)
            /\ h' = h + 1
            /\ pc' = "forHosts"
            /\ tries' = 0
            /\ connected' = FALSE
            /\ attempts' = 0
            /\ status' = "none"
            /\ UNCHANGED caller
    /\ UNCHANGED <<mainV, procV, bodyV, exc, failed, caught, net, rc, topo,
                   fi, killOrder, stopCount, stopSeen, finallyDone>>

\* dumpProcOut(p, ...); raise SetupError(...)
DumpAndRaiseSetupError ==
    /\ pc = "dumpProcOut"
    /\ drained' = [drained EXCEPT ![h] = TRUE]
    /\ Raise("SetupError")
    /\ UNCHANGED <<mainV, launchV, bodyV, tearV, caught, net, hw, rc, topo,
                   procState, sigCount, ready>>

(* ------------------------ WeaveDNS HTTP API ---------------------------- *)

\* publishName: one requests.put; a ConnectionError becomes TestError
publishName(outcome) ==
    [requests |-> 1,
     raised |-> CASE outcome = "ok" -> "none"
                  [] outcome = "ConnectionError" -> "TestError"
                  [] OTHER -> outcome]

\* a variant that sends the request again after a ConnectionError
deleteNameRetry(outcome) ==
    [requests |-> IF outcome = "ConnectionError" THEN 2 ELSE 1,
     raised |-> CASE outcome = "ok" -> "none"
                  [] outcome = "ConnectionError" -> "none"
                  [] OTHER -> outcome]

\* deleteName: one requests.delete; a ConnectionError becomes TestError
deleteName(outcome) ==
    [requests |-> 1,
     raised |-> CASE outcome = "ok" -> "none"
                  [] outcome = "ConnectionError" -> "TestError"
                  [] OTHER -> outcome]

HttpOutcomes == {"ok", "ConnectionError", "KeyboardInterrupt", "Exception"}

(* -------------------------- DNS resolutions ---------------------------- *)

\* what the server may answer with in each scenario
RData == IF scenario = 1 THEN {IP, OtherIP} ELSE {NAME, OtherName}

\* dns.query.udp(request, server.IP(), timeout=3.0): a Timeout, or a response
\* whose answer section is a list of records, each a list of rdata
Responses ==
    {[kind |-> "Timeout", answer |-> <<>>]} \cup
    {[kind |-> "answer", answer |-> a] : a \in SeqUpTo(SeqUpTo(RData, MaxItems), MaxRR)}

\* for rdata in rr.items: addresses.add(rdata.address)
RECURSIVE AddItems(_, _)
AddItems(items, acc) ==
    IF items = <<>> THEN acc
    ELSE AddItems(Tail(items), acc \cup {Head(items)})

\* for rr in response.answer: ...
RECURSIVE AddRecords(_, _)
AddRecords(answer, acc) ==
    IF answer = <<>> THEN acc
    ELSE AddRecords(Tail(answer), AddItems(Head(answer), acc))

\* resolveNameAt: addresses = set(); except Timeout: log; else: collect
resolveNameAt(resp) ==
    IF resp.kind = "Timeout"
    THEN [raised |-> "none", value |-> {}]
    ELSE [raised |-> "none", value |-> AddRecords(resp.answer, {})]

\* a variant that escalates the timeout
resolveIPAtStrict(resp) ==
    IF resp.kind = "Timeout"
    THEN [raised |-> "TestError", value |-> {}]
    ELSE [raised |-> "none", value |-> AddRecords(resp.answer, {})]

\* resolveIPAt: names = set(); except Timeout: log; else: collect the targets
resolveIPAt(resp) ==
    IF resp.kind = "Timeout"
    THEN [raised |-> "none", value |-> {}]
    ELSE [raised |-> "none", value |-> AddRecords(resp.answer, {})]

(* ----------------------------- assertions ------------------------------ *)

\* a variant that accepts any set
assertEmptySetLax(addrs) == "none"

\* each gives the exception the assertion raises, "none" when it passes
assertEmptySet(addrs) ==
    IF Cardinality(addrs) # 0 THEN "TestError" ELSE "none"

assertIPInSet(ip, addrs) ==
    IF ~(ip \in addrs) THEN "TestError" ELSE "none"

assertNameInSet(name, names) ==
    IF ~(name \in names) THEN "TestError" ELSE "none"

(* ------------------------- the with-body ------------------------------- *)

\* the statements of each with-block of __main__, in program order
Body ==
    << "publish", "query", "assertPresent",
       "delete", "wait",
       "query", "assertEmpty",
       "publish", "wait", "query", "assertPresent",
       "success" >>

\* a variant that waits one second less than the TTL
WaitSecsShort == CACHE_NEG_TTL - 1

\* wait(CACHE_NEG_TTL + 1, "cache expiration")
WaitSecs == CACHE_NEG_TTL + 1

\* wait(secs, reason): time.sleep(secs)
wait(secs) == elapsed + secs

AtBody(op) == pc = "body" /\ Body[step] = op

\* publishName(h2, 'container', NAME, IP)
Publish ==
    /\ AtBody("publish")
    /\ steps' = Append(steps, "PUBLISH")
    /\ \E outcome \in HttpOutcomes :
         LET r == publishName(outcome) IN
         /\ putCount' = putCount + r.requests
         /\ lastHttp' = outcome
         /\ IF r.raised = "none"
            THEN /\ step' = step + 1
                 /\ elapsed' = 0
                 /\ UNCHANGED <<pc, exc, failed>>
            ELSE /\ Raise(r.raised)
                 /\ UNCHANGED <<step, elapsed>>
    /\ UNCHANGED <<mainV, launchV, procV, tearV, caught, net, hw, rc, topo,
                   addresses, response, held, queryAt, deleteCount>>

\* deleteName(h2, 'container', NAME, IP)
Delete ==
    /\ AtBody("delete")
    /\ steps' = Append(steps, "DELETE")
    /\ \E outcome \in HttpOutcomes :
         LET r == deleteName(outcome) IN
         /\ deleteCount' = deleteCount + r.requests
         /\ lastHttp' = outcome
         /\ IF r.raised = "none"
            THEN /\ step' = step + 1
                 /\ elapsed' = 0
                 /\ UNCHANGED <<pc, exc, failed>>
            ELSE /\ Raise(r.raised)
                 /\ UNCHANGED <<step, elapsed>>
    /\ UNCHANGED <<mainV, launchV, procV, tearV, caught, net, hw, rc, topo,
                   addresses, response, held, queryAt, putCount>>

\* wait(CACHE_NEG_TTL + 1, "cache expiration")
Wait ==
    /\ AtBody("wait")
    /\ steps' = Append(steps, "WAIT")
    /\ \E outcome \in {"ok", "KeyboardInterrupt"} :
         IF outcome = "ok"
         THEN /\ elapsed' = wait(WaitSecs)
              /\ step' = step + 1
              /\ UNCHANGED <<pc, exc, failed>>
         ELSE /\ Raise(outcome)
              /\ UNCHANGED <<step, elapsed>>
    /\ UNCHANGED <<mainV, launchV, procV, tearV, caught, net, hw, rc, topo,
                   addresses, response, held, queryAt, putCount, deleteCount,
                   lastHttp>>

\* addresses = resolveNameAt(NAME, h1)   /   names = resolveIPAt(IP, h1)
Resolve ==
    /\ AtBody("query")
    /\ steps' = Append(steps, "QUERY")
    /\ queryAt' = Append(queryAt, elapsed)
    /\ \/ \E resp \in Responses :
            LET r == IF scenario = 1 THEN resolveNameAt(resp)
                                     ELSE resolveIPAt(resp) IN
            /\ response' = resp
            /\ IF r.raised = "none"
               THEN /\ addresses' = r.value
                    /\ step' = step + 1
                    /\ UNCHANGED <<pc, exc, failed>>
               ELSE /\ Raise(r.raised)
                    /\ UNCHANGED <<addresses, step>>
       \/ \E fault \in {"KeyboardInterrupt", "Exception"} :
            /\ Raise(fault)
            /\ UNCHANGED <<addresses, response, step>>
    /\ UNCHANGED <<mainV, launchV, procV, tearV, caught, net, hw, rc, topo,
                   held, elapsed, putCount, deleteCount, lastHttp>>

\* the value the scenario looks for
Expected == IF scenario = 1 THEN IP ELSE NAME

\* assertIPInSet(IP, addresses)   /   assertNameInSet(NAME, names)
AssertPresent ==
    /\ AtBody("assertPresent")
    /\ held' = Append(held, Expected \in addresses)
    /\ response' = NoResponse
    /\ LET e == IF scenario = 1 THEN assertIPInSet(IP, addresses)
                                ELSE assertNameInSet(NAME, addresses) IN
       IF e = "none"
       THEN /\ step' = step + 1
            /\ UNCHANGED <<pc, exc, failed>>
       ELSE /\ Raise(e)
            /\ UNCHANGED step
    /\ UNCHANGED <<mainV, launchV, procV, tearV, caught, net, hw, rc, topo,
                   addresses, steps, elapsed, queryAt, putCount, deleteCount,
                   lastHttp>>

\* assertEmptySet(addresses)   /   assertEmptySet(names)
AssertEmpty ==
    /\ AtBody("assertEmpty")
    /\ held' = Append(held, addresses = {})
    /\ response' = NoResponse
    /\ LET e == assertEmptySet(addresses) IN
       IF e = "none"
       THEN /\ step' = step + 1
            /\ UNCHANGED <<pc, exc, failed>>
       ELSE /\ Raise(e)
            /\ UNCHANGED step
    /\ UNCHANGED <<mainV, launchV, procV, tearV, caught, net, hw, rc, topo,
                   addresses, steps, elapsed, queryAt, putCount, deleteCount,
                   lastHttp>>

\* success("Distributed ...-query was OK!"); the with-block ends and the
\* generator resumes after its yield, into the finally block
Success ==
    /\ AtBody("success")
    /\ steps' = Append(steps, "SUCCESS")
    /\ pc' = "finally"
    /\ UNCHANGED <<mainV, launchV, procV, tearV, exc, failed, caught, net, hw,
                   rc, topo, step, addresses, response, held, elapsed, queryAt,
                   putCount, deleteCount, lastHttp>>

(* ------------------- weaveDnsNetwork: except, finally ------------------ *)

\* the value each except clause leaves in rc
RcAfter(e) ==
    CASE e = "SetupError" -> 1
      [] e = "TestError" -> rc
      [] e = "KeyboardInterrupt" -> 1
      [] e = "Exception" -> 1

Handle(e) ==
    /\ rc' = RcAfter(e)
    /\ caught' = e
    /\ exc' = "none"
    /\ pc' = "finally"
    /\ UNCHANGED <<mainV, launchV, procV, bodyV, tearV, failed, net, hw, topo>>

\* except SetupError, e: error(...); rc = 1
ExceptSetupError ==
    /\ pc = "except"
    /\ exc = "SetupError"
    /\ Handle("SetupError")

\* except TestError, e: error(...)
ExceptTestError ==
    /\ pc = "except"
    /\ exc = "TestError"
    /\ Handle("TestError")

\* except KeyboardInterrupt: log(...); rc = 1
ExceptKeyboardInterrupt ==
    /\ pc = "except"
    /\ exc = "KeyboardInterrupt"
    /\ Handle("KeyboardInterrupt")

\* except Exception, e: rc = 1
ExceptException ==
    /\ pc = "except"
    /\ exc = "Exception"
    /\ Handle("Exception")

\* a variant that forgets the loop over hw
FinallyLoopNoKill ==
    /\ pc = "finally"
    /\ pc' = "stopTopology"
    /\ UNCHANGED <<mainV, launchV, procV, bodyV, tearV, exc, failed, caught,
                   net, hw, rc, topo>>

\* finally: for (h, w) in hw: if w: killProc(h, w)
FinallyLoop ==
    /\ pc = "finally"
    /\ IF fi <= Len(hw)
       THEN /\ caller' = "finally"
            /\ killOrder' = Append(killOrder, hw[fi])
            /\ pc' = "killProc"
       ELSE /\ pc' = "stopTopology"
            /\ UNCHANGED <<caller, killOrder>>
    /\ UNCHANGED <<mainV, launchV, procV, bodyV, exc, failed, caught, net, hw,
                   rc, topo, fi, stopCount, stopSeen, finallyDone>>

\* if debug: dumpProcOut(w, ...), and on to the next pair of hw
FinallyDump ==
    /\ pc = "finallyDump"
    /\ drained' = [drained EXCEPT ![hw[fi]] = debug \/ @]
    /\ fi' = fi + 1
    /\ pc' = "finally"
    /\ UNCHANGED <<mainV, launchV, bodyV, exc, failed, caught, net, hw, rc,
                   topo, procState, sigCount, ready, caller, killOrder,
                   stopCount, stopSeen, finallyDone>>

\* stopTopology(net); log("Done... bye")
FinallyStop ==
    /\ pc = "stopTopology"
    /\ stopTopology
    /\ finallyDone' = TRUE
    /\ pc' = "sysExit"
    /\ UNCHANGED <<mainV, launchV, procV, bodyV, exc, failed, caught, net, hw,
                   rc, fi, caller, killOrder>>

\* if rc: sys.exit(rc).  Otherwise a SystemExit in flight leaves the
\* generator, and anything else ends the with-block.
FinallyExit ==
    /\ pc = "sysExit"
    /\ IF rc # 0
       THEN /\ exitCode' = rc
            /\ pc' = "exited"
       ELSE IF exc = "SystemExit"
       THEN /\ exitCode' = TopologyExitCode
            /\ pc' = "exited"
       ELSE /\ pc' = "end"
            /\ UNCHANGED exitCode
    /\ UNCHANGED <<scenario, debug, launchV, procV, bodyV, tearV, exc, failed,
                   caught, net, hw, rc, topo>>

(* ------------------------------ __main__ ------------------------------- *)

\* the first with-block is over: the PTR-query with-block begins
NextScenario ==
    /\ pc = "end"
    /\ scenario = 1
    /\ scenario' = 2
    /\ EnterInvocation
    /\ UNCHANGED <<debug, exitCode, failed>>

\* the second with-block is over: the script ends, exit status 0
ScriptEnd ==
    /\ pc = "end"
    /\ scenario = 2
    /\ exitCode' = 0
    /\ pc' = "exited"
    /\ UNCHANGED <<scenario, debug, launchV, procV, bodyV, tearV, exc, failed,
                   caught, net, hw, rc, topo>>

Next ==
    \/ CreateTopology \/ LinkRootNode \/ StartNetwork
    \/ ForHosts \/ LaunchSleep \/ Popen \/ PollTest \/ StatusGet \/ PollSleep
    \/ CheckConnected \/ DumpAndRaiseSetupError
    \/ SendSignal \/ GracePeriod \/ ForceKill
    \/ Publish \/ Resolve \/ AssertPresent \/ Delete \/ Wait \/ AssertEmpty
    \/ Success
    \/ ExceptSetupError \/ ExceptTestError \/ ExceptKeyboardInterrupt
    \/ ExceptException
    \/ FinallyLoop \/ FinallyDump \/ FinallyStop \/ FinallyExit
    \/ NextScenario \/ ScriptEnd

Spec == Init /\ [][Next]_vars
(* ============================ properties ============================== *)

InvocationEnded == pc \in {"end", "exited"}

IsPrefix(s, t) == Len(s) <= Len(t) /\ \A i \in 1..Len(s) : s[i] = t[i]

Count(s, x) == Cardinality({i \in 1..Len(s) : s[i] = x})

Recorded == {hw[i] : i \in 1..Len(hw)}

\* C1: when a scenario invocation ends, every service process the launcher
\* spawned has received a termination signal (or was found to be gone when
\* signalled); none is left running.
C1_EverySpawnedProcessSignaled ==
    InvocationEnded =>
        \A p \in Hosts :
            procState[p] # "none" => (sigCount[p] >= 1 \/ procState[p] = "gone")

\* C2: the script exits with a non-zero status whenever a set-up step or a
\* scenario failed (SetupError, TestError, KeyboardInterrupt, any fault).
C2_FailureGivesNonZeroExit ==
    (pc = "exited" /\ failed) => exitCode # 0

\* C3: when a scenario invocation ends, the topology was stopped exactly once
\* if one was created (also when startTopology failed part-way), and not at
\* all if none was.
C3_TopologyStoppedExactlyOnce ==
    InvocationEnded => stopCount = (IF topo = "none" THEN 0 ELSE 1)

\* the order of the steps as the scenario is described
ExpectedOrder ==
    << "PUBLISH", "QUERY", "DELETE", "WAIT", "QUERY", "PUBLISH", "WAIT",
       "QUERY", "SUCCESS" >>

\* the position in ExpectedOrder of the first, second and third query
QueryPosition == << 2, 5, 8 >>

\* C4: the steps of a scenario run in the order PUBLISH, QUERY, DELETE, WAIT,
\* QUERY, PUBLISH, WAIT, QUERY, SUCCESS; an assertion that does not hold
\* raises TestError and no later step runs; SUCCESS is reported only when all
\* three assertions held; and the teardown still runs.
C4_StepsInOrder ==
    /\ IsPrefix(steps, ExpectedOrder)
    /\ Len(held) <= Len(QueryPosition)
    /\ \A i \in 1..Len(held) :
         /\ Len(steps) >= QueryPosition[i]
         /\ ~held[i] =>
              /\ i = Len(held)
              /\ Len(steps) = QueryPosition[i]
              /\ pc # "body"
              /\ exc = "TestError" \/ caught = "TestError"
    /\ Count(steps, "SUCCESS") > 0 => held = << TRUE, TRUE, TRUE >>
    /\ (InvocationEnded /\ steps # << >>) =>
         /\ finallyDone
         /\ stopCount = 1
         /\ \A p \in Recorded : procState[p] \in {"killed", "gone"}

\* C4 witness: the second assertion (expect absent) failed in the PTR
\* scenario and the invocation has ended.
C4_Witness ==
    /\ InvocationEnded
    /\ scenario = 2
    /\ held = << TRUE, FALSE >>

InPoll == pc \in {"poll", "statusGet", "pollSleep"}

\* a measure of the work the poll has left: every step of the poll lowers it
PollMeasure ==
    CASE pc = "poll" -> IF connected THEN 0 ELSE 3 * tries + 3
      [] pc = "statusGet" -> 3 * tries + 2
      [] pc = "pollSleep" -> 3 * tries + 1
      [] OTHER -> 0

\* C5: the readiness poll issues at most 10 status requests and terminates (it
\* can always take a step, and each step lowers a bounded measure); a
\* refused connection costs exactly one try and polling goes on after the
\* 1-second sleep; a timeout ends polling at once whatever tries remained;
\* the first success ends polling with connected set.
C5_ReadinessPollBounded ==
    /\ [](attempts <= Tries /\ tries \in 0..Tries)
    /\ []((pc \in {"poll", "statusGet"} /\ ~connected /\ status # "Timeout")
            => tries = Tries - attempts)
    /\ [][(pc = "statusGet" /\ status' = "ConnectionError" /\ attempts' = attempts + 1)
             => (pc' = "pollSleep" /\ tries' = tries)]_vars
    /\ [][(pc = "pollSleep" /\ pc' # "except")
             => (pc' = "poll" /\ tries' = tries - 1)]_vars
    /\ [][(pc = "poll" /\ tries > 0 /\ ~connected) => pc' = "statusGet"]_vars
    /\ [](status = "Timeout" => (tries = 0 /\ ~connected /\ pc # "statusGet"))
    /\ [](status = "ok" => (connected /\ pc # "statusGet"))
    /\ [][(pc = "poll" /\ connected) => pc' = "checkConnected"]_vars
    /\ [](InPoll => ENABLED Next)
    /\ [][(InPoll /\ InPoll') => PollMeasure' < PollMeasure]_vars

\* C5 witness: a timeout on the third status request ended the poll although
\* tries were left over.
C5_Witness ==
    /\ pc = "checkConnected"
    /\ status = "Timeout"
    /\ attempts = 3

\* C6: when the poll ends without success the launcher kills the process,
\* drains its output and raises SetupError; only a process that answered the
\* status request is returned and recorded in hw, and the scenario body runs
\* only with every instance ready.
C6_OnlyReadyInstancesRecorded ==
    /\ [](\A p \in Recorded : ready[p])
    /\ [](pc = "body" =>
            (Recorded = Hosts /\ \A p \in Hosts : procState[p] = "running"))
    /\ []((exc = "SetupError" \/ caught = "SetupError") =>
            /\ ~ready[h]
            /\ h \notin Recorded
            /\ procState[h] \in {"killed", "gone"}
            /\ drained[h])
    /\ [][(pc = "checkConnected" /\ ~connected)
             => (pc' = "killProc" /\ caller' = "runWeaveDNS" /\ hw' = hw)]_vars
    /\ [][(pc = "killProc" /\ caller = "runWeaveDNS")
             => procState'[h] \in {"signaled", "gone"}]_vars
    /\ [][pc = "dumpProcOut" => (exc' = "SetupError" /\ drained'[h])]_vars

\* C6 witness: the second host's process failed readiness after the first was
\* recorded, and the invocation ended with SetupError handled.
C6_Witness ==
    /\ InvocationEnded
    /\ caught = "SetupError"
    /\ hw = << 1 >>
    /\ procState[2] = "killed"

\* C7: the query after the delete and the query after the re-publish are
\* issued once at least CACHE_NEG_TTL + 1 seconds have passed since that
\* delete or re-publish returned; emptiness is never asserted on a query
\* issued less than CACHE_NEG_TTL seconds after the deletion.
C7_QueriesAfterTTL ==
    /\ \A i \in 2..Len(queryAt) : queryAt[i] >= CACHE_NEG_TTL + 1
    /\ Len(queryAt) >= 2 => (deleteCount = 1 /\ Count(steps, "WAIT") >= 1)
    /\ Len(queryAt) >= 3 => (putCount = 2 /\ Count(steps, "WAIT") = 2)
    /\ AtBody("assertEmpty") =>
         (Len(queryAt) = 2 /\ queryAt[2] >= CACHE_NEG_TTL)

\* C7 witness: the third query has been issued.
C7_Witness ==
    /\ Len(queryAt) = 3
    /\ queryAt[3] = CACHE_NEG_TTL + 1

\* every rdata of every record of an answer section
AllRData(answer) ==
    UNION {{answer[i][j] : j \in 1..Len(answer[i])} : i \in 1..Len(answer)}

\* C8: a DNS timeout raises nothing and gives the empty set; a response gives
\* exactly the set of the addresses (names) of all records of its answer
\* section.
C8_TimeoutIsEmptyResult ==
    /\ response.kind = "Timeout" =>
         (pc = "body" /\ exc = "none" /\ addresses = {})
    /\ response.kind = "answer" =>
         (pc = "body" /\ exc = "none" /\ addresses = AllRData(response.answer))

\* C8 witness: the PTR query after the delete timed out.
C8_Witness ==
    /\ scenario = 2
    /\ response.kind = "Timeout"
    /\ Len(queryAt) = 2

\* C9: publish and delete send one HTTP request each and never retry; a
\* ConnectionError raises TestError at once and the scenario goes no further.
C9_ControlCallsNotRetried ==
    /\ putCount = Count(steps, "PUBLISH")
    /\ deleteCount = Count(steps, "DELETE")
    /\ putCount <= 2 /\ deleteCount <= 1
    /\ lastHttp = "ConnectionError" =>
         /\ pc # "body"
         /\ exc = "TestError" \/ caught = "TestError"
         /\ steps[Len(steps)] \in {"PUBLISH", "DELETE"}

\* C9 witness: the delete met a ConnectionError and the invocation ended.
C9_Witness ==
    /\ InvocationEnded
    /\ lastHttp = "ConnectionError"
    /\ deleteCount = 1

\* C10 as stated: once the topology is stopped, every recorded instance has
\* been sent SIGINT, given its grace period and force-killed.
C10_AllForceKilledBeforeStop ==
    stopCount >= 1 =>
        \A p \in Recorded : procState[p] = "killed" /\ sigCount[p] = 1

\* C10, amended: the topology is stopped only after killProc has run, in
\* launch order, on every recorded instance: each was sent SIGINT, given the
\* grace period and force-killed, unless send_signal or kill raised OSError,
\* which ends killProc for that instance; no instance is signalled after the
\* stop, and none more than once.
C10_TeardownOrder ==
    /\ [](IsPrefix(killOrder, hw))
    /\ [](\A p \in Hosts : sigCount[p] <= 1)
    /\ [](stopCount >= 1 =>
            /\ stopSeen = hw
            /\ \A p \in Recorded :
                 /\ procState[p] \in {"killed", "gone"}
                 /\ procState[p] = "killed" => sigCount[p] = 1)
    /\ [][\A p \in Hosts :
            /\ (procState'[p] = "killed" /\ procState[p] # "killed")
                  => procState[p] = "graced"
            /\ (procState'[p] = "graced" /\ procState[p] # "graced")
                  => procState[p] = "signaled"]_vars
    /\ [][(stopCount >= 1 /\ scenario' = scenario)
             => (sigCount' = sigCount /\ procState' = procState)]_vars

\* C10 witness: the topology is stopped after both instances were dealt with,
\* the first force-killed, the second gone when signalled.
C10_Witness ==
    /\ stopCount = 1
    /\ hw = << 1, 2 >>
    /\ procState[1] = "killed"
    /\ procState[2] = "gone"
    /\ sigCount[2] = 0
=============================================================================
